---- MODULE Spec2Model ----
(***************************************************************************)
(* Realtime relay and transcript assembly of SmartShoppingGuideReview.     *)
(*                                                                         *)
(* Spec      : the browser side, src/components/LiveSession.tsx: the       *)
(*             transcript assembler (handleServerMessage), the React       *)
(*             state queue it commits through, and endSession.             *)
(* SpecRelay : the server side, src/vite.config.ts: the per-connection     *)
(*             WebSocket relay between a client and the upstream session.  *)
(***************************************************************************)
EXTENDS Integers, Sequences, FiniteSets, TLC

\* ------------------------------------------------------------------ bounds
MaxEvents == 2      \* upstream events delivered to one LiveSession
MaxClock  == 2      \* ticks of the output AudioContext clock
ChunkDur  == 2      \* audioBuffer.duration of an output chunk, in ticks

\* ------------------------------------------------------------------- text
\* A text is a sequence of characters; "#" stands for the glyphs of the
\* interruption marker "(被打断)", which the code appends after a space.
Space  == " "
Marker == <<Space, "#">>

RECURSIVE TrimLeft(_)
TrimLeft(s) ==
    IF s = <<>> THEN <<>>
    ELSE IF Head(s) = Space THEN TrimLeft(Tail(s)) ELSE s

RECURSIVE TrimRight(_)
TrimRight(s) ==
    IF s = <<>> THEN <<>>
    ELSE IF s[Len(s)] = Space THEN TrimRight(SubSeq(s, 1, Len(s) - 1)) ELSE s

\* String.prototype.trim
Trim(s) == TrimRight(TrimLeft(s))

\* JavaScript truthiness of a string
Truthy(s) == s # <<>>

\* ------------------------------------------------------------- LiveSession
VARIABLES
    transcripts,   \* useState transcripts: the value of the last render
    updQ,          \* updater functions queued by setTranscripts, not yet run
    lanes,         \* the component has a state update pending (fiber.lanes)
    inBuf,         \* currentInputTransRef.current
    outBuf,        \* currentOutputTransRef.current
    pending,       \* handleServerMessage calls suspended at an await
    ctxState,      \* outputCtx.state
    wsOpen,        \* the client WebSocket is OPEN
    ended,         \* endSession has run
    handed,        \* finalHistory passed to onEndSession
    recvN,         \* number of gemini messages received so far
    done,          \* arrival numbers of the events, in the order applied
    lastSig,       \* the signals of the event whose handler ran last
    clock,         \* outputCtx.currentTime
    nextStart,     \* nextStartTimeRef.current
    sources,       \* sourcesRef.current: the scheduled sources, by end time
    expected       \* history: the buffer contents at each commit

pvars == <<clock, nextStart, sources>>

cvars == <<transcripts, updQ, lanes, inBuf, outBuf, pending, ctxState,
           wsOpen, ended, handed, recvN, done, lastSig, expected, pvars>>

\* The relay, src/vite.config.ts: the state of wss.on('connection', ...),
\* one closure per client connection, and the upstream sessions.
VARIABLES
    conns,      \* the client connections accepted so far
    hasKey,     \* API_KEY is set in the environment
    session,    \* per connection: "let session", 0 for null, else an upstream
    wsState,    \* per connection: readyState of the client socket
    toClient,   \* per connection: the messages ws.send delivered
    deadSend,   \* per connection: ws.send was called on the closed socket
    starts,     \* per connection: start_session messages handled
    inputs,     \* per connection: input messages handled
    junk,       \* per connection: malformed or unrecognized frames handled
    ups         \* the upstream sessions, in the order ai.live.connect made them

rvars == <<conns, hasKey, session, wsState, toClient, deadSend, starts,
           inputs, junk, ups>>

\* The application, src/App.tsx, with the connection state of LiveSession and
\* the evaluation call.
VARIABLES
    appState,      \* App: appState
    scenario,      \* App: selectedScenario, "none" for null
    report,        \* App: report, <<>> for null, <<r>> for a report
    generating,    \* App: isGeneratingReport
    evalPhase,     \* the promise of generateEvaluation
    fetchRes,      \* what fetch('/api/evaluate') yielded
    hasStarted,    \* LiveSession: hasStarted
    initializing,  \* LiveSession: initializing
    isConnected,   \* LiveSession: isConnected
    error,         \* LiveSession: error, <<>> for null
    media,         \* the getUserMedia promise of initializeSession
    sock,          \* LiveSession: wsRef.current and its readyState
    mic,           \* the ScriptProcessor of startAudioCapture is running
    cam,           \* the interval of startVideoStreaming is set
    srv,           \* the upstream session the relay holds for this socket
    srvN,          \* events and errors the upstream session has produced
    inbox,         \* messages the relay has sent and ws.onmessage has not seen
    sent,          \* input messages sent on the socket
    startsSent,    \* start_session messages sent on the socket
    closedSeen,    \* ws.onmessage has handled {status: closed}
    openSeen,      \* ws.onmessage has handled {status: open}
    endedRun,      \* endSession has run and the component has unmounted
    now,           \* Date.now(), in ms
    evalImages,    \* LiveSession: evalImagesRef.current.length
    lastEval       \* LiveSession: lastEvalImageTimeRef.current

avars == <<appState, scenario, report, generating, evalPhase, fetchRes,
           hasStarted, initializing, isConnected, error, media, sock, mic,
           cam, srv, srvN, inbox, sent, startsSent, closedSeen, openSeen,
           endedRun, now, evalImages, lastEval>>

vars == <<cvars, rvars, avars>>

\* An upstream event as handleServerMessage reads it (message.serverContent);
\* a text of <<>> is an absent or empty transcription, which the code skips
\* alike.
Ev(inT, outT, audio, tc, int) ==
    [hasContent |-> TRUE, inT |-> inT, outT |-> outT, audio |-> audio,
     tc |-> tc, int |-> int]

NoContentEv ==
    [hasContent |-> FALSE, inT |-> <<>>, outT |-> <<>>, audio |-> FALSE,
     tc |-> FALSE, int |-> FALSE]

\* The events the environment delivers: single deltas, bare signals, deltas
\* that share an event with a signal, and events with an audio chunk.
Events ==
    { NoContentEv,
      Ev(<<"a">>, <<>>, FALSE, FALSE, FALSE),
      Ev(<<Space>>, <<>>, FALSE, FALSE, FALSE),
      Ev(<<>>, <<"b">>, FALSE, FALSE, FALSE),
      Ev(<<>>, <<Space>>, FALSE, FALSE, FALSE),
      Ev(<<>>, <<>>, FALSE, TRUE, FALSE),
      Ev(<<>>, <<>>, FALSE, FALSE, TRUE),
      Ev(<<>>, <<>>, FALSE, TRUE, TRUE),
      Ev(<<"a">>, <<"b">>, FALSE, TRUE, FALSE),
      Ev(<<>>, <<"b">>, FALSE, TRUE, FALSE),
      Ev(<<>>, <<"b">>, FALSE, FALSE, TRUE),
      Ev(<<>>, <<>>, TRUE, FALSE, FALSE),
      Ev(<<>>, <<"b">>, TRUE, FALSE, FALSE),
      Ev(<<"a">>, <<>>, TRUE, TRUE, FALSE) }

Utt(role, text) == [role |-> role, text |-> text]

\* One call setTranscripts(prev => [...prev, {role, text: <ref> (+ marker)}]).
\* React runs the updater at once only when the component has no update
\* pending (eager state); otherwise at the next render, reading the ref then.
Upd(role, src, mark, eager, text) ==
    [role |-> role, src |-> src, mark |-> mark, eager |-> eager,
     text |-> IF eager THEN text ELSE <<>>]

\* The assembler state a handler run works on.
AsmState(i, o, q, l, x) == [inB |-> i, outB |-> o, q |-> q, lanes |-> l, exp |-> x]

\* 2. Transcription (stream accumulation): output first, then input.
Accumulate(st, e) ==
    [st EXCEPT !.outB = st.outB \o e.outT,
               !.inB  = st.inB \o e.inT,
               !.lanes = st.lanes \/ Truthy(e.outT) \/ Truthy(e.inT)]

\* CommitUser with the buffer tested without trim()
CommitUser_NoTrim(st, eagerOK) ==
    IF Truthy(st.inB)
    THEN [st EXCEPT !.q = Append(st.q, Upd("user", "in", FALSE,
                                           eagerOK /\ ~st.lanes, st.inB)),
                    !.exp = Append(st.exp, Utt("user", st.inB)),
                    !.inB = <<>>,
                    !.lanes = TRUE]
    ELSE st

CommitUser(st, eagerOK) ==
    IF Truthy(Trim(st.inB))
    THEN [st EXCEPT !.q = Append(st.q, Upd("user", "in", FALSE,
                                           eagerOK /\ ~st.lanes, st.inB)),
                    !.exp = Append(st.exp, Utt("user", st.inB)),
                    !.inB = <<>>,
                    !.lanes = TRUE]
    ELSE st

CommitModel(st, eagerOK) ==
    IF Truthy(Trim(st.outB))
    THEN [st EXCEPT !.q = Append(st.q, Upd("model", "out", FALSE,
                                           eagerOK /\ ~st.lanes, st.outB)),
                    !.exp = Append(st.exp, Utt("model", st.outB)),
                    !.outB = <<>>,
                    !.lanes = TRUE]
    ELSE st

\* TurnComplete with the model branch ahead of the user branch
TurnComplete_ModelFirst(st, eagerOK) == CommitUser(CommitModel(st, eagerOK), eagerOK)

\* 3. Turn complete (commit)
TurnComplete(st, eagerOK) == CommitModel(CommitUser(st, eagerOK), eagerOK)

\* Interrupted that resets the input buffer as well
Interrupted_ClearsBoth(st, eagerOK) ==
    LET c == IF Truthy(Trim(st.outB))
             THEN [st EXCEPT !.q = Append(st.q, Upd("model", "out", TRUE,
                                          eagerOK /\ ~st.lanes,
                                          st.outB \o Marker)),
                             !.exp = Append(st.exp,
                                            Utt("model", st.outB \o Marker))]
             ELSE st
    IN [c EXCEPT !.outB = <<>>, !.inB = <<>>, !.lanes = TRUE]

\* serverContent.interrupted
Interrupted(st, eagerOK) ==
    LET c == IF Truthy(Trim(st.outB))
             THEN [st EXCEPT !.q = Append(st.q, Upd("model", "out", TRUE,
                                          eagerOK /\ ~st.lanes,
                                          st.outB \o Marker)),
                             !.exp = Append(st.exp,
                                            Utt("model", st.outB \o Marker))]
             ELSE st
    IN [c EXCEPT !.outB = <<>>, !.lanes = TRUE]

\* HandlerTail with the interrupted branch ahead of the turnComplete branch
HandlerTail_IntFirst(st, e, eagerOK) ==
    LET a == Accumulate(st, e)
        t == IF e.int THEN Interrupted(a, eagerOK) ELSE a
    IN IF e.tc THEN TurnComplete(t, eagerOK) ELSE t

\* The synchronous rest of handleServerMessage, from "2. Transcription" on.
HandlerTail(st, e, eagerOK) ==
    LET a == Accumulate(st, e)
        t == IF e.tc THEN TurnComplete(a, eagerOK) ELSE a
    IN IF e.int THEN Interrupted(t, eagerOK) ELSE t

\* serverContent.turnComplete and serverContent.interrupted of an event
Sig(e) == [tc |-> e.tc, int |-> e.int]

Cur == AsmState(inBuf, outBuf, updQ, lanes, expected)

\* The playback state a handler run works on.
Playback(next, src) == [next |-> next, src |-> src]
CurPlay == Playback(nextStart, sources)

Max(a, b) == IF a >= b THEN a ELSE b

\* Schedule that starts every chunk at currentTime
Schedule_AtCurrentTime(pb) ==
    LET startTime == clock
    IN Playback(startTime + ChunkDur, pb.src \cup {startTime + ChunkDur})

\* 1. Audio playback: the chunk starts at max(nextStartTime, currentTime).
Schedule(pb) ==
    LET startTime == Max(pb.next, clock)
    IN Playback(startTime + ChunkDur, pb.src \cup {startTime + ChunkDur})

\* serverContent.interrupted: stop and clear the sources, restart the timeline.
StopAll(pb) == Playback(clock, {})

RunTail(n, e, eagerOK, pb) ==
    LET r == HandlerTail(Cur, e, eagerOK)
        q == IF e.int THEN StopAll(pb) ELSE pb
    IN /\ nextStart' = q.next
       /\ sources' = q.src
       /\ clock' = clock
       /\ inBuf' = r.inB
       /\ outBuf' = r.outB
       /\ updQ' = r.q
       /\ lanes' = r.lanes
       /\ expected' = r.exp
       /\ done' = Append(done, n)
       /\ lastSig' = Sig(e)

\* A run that returns at "if (!serverContent) return".
RunNoContent(n, e) ==
    /\ done' = Append(done, n)
    /\ lastSig' = Sig(e)
    /\ UNCHANGED <<inBuf, outBuf, updQ, lanes, expected, pvars>>

\* handleServerMessage from "const serverContent" up to its next await.
FromContent(n, e, eagerOK, rest) ==
    IF ~e.hasContent THEN RunNoContent(n, e) /\ pending' = rest
    ELSE IF e.audio
    THEN /\ pending' = Append(rest, [n |-> n, ev |-> e, pc |-> "decode"])
         /\ UNCHANGED <<inBuf, outBuf, updQ, lanes, expected, done, lastSig,
                        pvars>>
    ELSE RunTail(n, e, eagerOK, CurPlay) /\ pending' = rest

\* ws.onmessage with msg.type === 'gemini': handleServerMessage is called
\* and not awaited.
OnGemini(e, eagerOK) ==
    /\ wsOpen /\ ~ended
    /\ recvN < MaxEvents
    /\ recvN' = recvN + 1
    /\ IF ctxState = "suspended"
       THEN /\ pending' = Append(pending, [n |-> recvN + 1, ev |-> e, pc |-> "resume"])
            /\ UNCHANGED <<inBuf, outBuf, updQ, lanes, expected, done, lastSig,
                           pvars>>
       ELSE FromContent(recvN + 1, e, eagerOK, pending)
    /\ UNCHANGED <<transcripts, ctxState, wsOpen, ended, handed>>
    /\ UNCHANGED <<rvars, avars>>

\* The pending calls at one await, and the list without its i-th entry.
AtPc(pc) == {i \in 1..Len(pending) : pending[i].pc = pc}
FirstAt(pc) == CHOOSE i \in AtPc(pc) : \A j \in AtPc(pc) : i <= j
Without(i) == SubSeq(pending, 1, i - 1) \o SubSeq(pending, i + 1, Len(pending))

\* "await ctx.resume()" returns in the first call waiting for it.
ResumeDone(eagerOK) ==
    /\ AtPc("resume") # {}
    /\ LET i == FirstAt("resume")
       IN FromContent(pending[i].n, pending[i].ev, eagerOK, Without(i))
    /\ ctxState' = "running"
    /\ UNCHANGED <<transcripts, wsOpen, ended, handed, recvN>>
    /\ UNCHANGED <<rvars, avars>>

\* "await decodeAudioData(...)" returns in the first call waiting for it, or
\* throws into catch (e); the chunk is scheduled and the rest of the handler
\* runs.
DecodeDone(eagerOK, decoded) ==
    /\ AtPc("decode") # {}
    /\ LET i == FirstAt("decode")
       IN /\ RunTail(pending[i].n, pending[i].ev, eagerOK,
                     IF decoded THEN Schedule(CurPlay) ELSE CurPlay)
          /\ pending' = Without(i)
    /\ UNCHANGED <<transcripts, ctxState, wsOpen, ended, handed, recvN>>
    /\ UNCHANGED <<rvars, avars>>

\* The browser suspends the output AudioContext.
CtxSuspend ==
    /\ ctxState = "running" /\ ~ended /\ wsOpen
    /\ recvN < MaxEvents
    /\ ctxState' = "suspended"
    /\ UNCHANGED <<transcripts, updQ, lanes, inBuf, outBuf, pending, wsOpen,
                   ended, handed, recvN, done, lastSig, expected, pvars>>
    /\ UNCHANGED <<rvars, avars>>

\* The clock of the output AudioContext advances.
Tick ==
    /\ ~ended
    /\ clock < MaxClock
    /\ clock' = clock + 1
    /\ UNCHANGED <<transcripts, updQ, lanes, inBuf, outBuf, pending, ctxState,
                   wsOpen, ended, handed, recvN, done, lastSig, expected,
                   nextStart, sources>>
    /\ UNCHANGED <<rvars, avars>>

\* source.onended = () => sourcesRef.current.delete(source)
SourceEnded(t) ==
    /\ ~ended
    /\ t \in sources /\ t <= clock
    /\ sources' = sources \ {t}
    /\ UNCHANGED <<transcripts, updQ, lanes, inBuf, outBuf, pending, ctxState,
                   wsOpen, ended, handed, recvN, done, lastSig, expected,
                   clock, nextStart>>
    /\ UNCHANGED <<rvars, avars>>

\* The text an updater yields when it runs.
BufOf(src) == IF src = "in" THEN inBuf ELSE outBuf
UpdText(u) ==
    IF u.eager THEN u.text
    ELSE BufOf(u.src) \o (IF u.mark THEN Marker ELSE <<>>)

RECURSIVE ApplyUpdates(_, _)
ApplyUpdates(prev, q) ==
    IF q = <<>> THEN prev
    ELSE ApplyUpdates(Append(prev, Utt(Head(q).role, UpdText(Head(q)))), Tail(q))

\* Render with updaters that ignore prev, setTranscripts(() => [{...}])
Render_DropsPrev ==
    /\ lanes /\ ~ended
    /\ transcripts' = ApplyUpdates(<<>>, updQ)
    /\ updQ' = <<>>
    /\ lanes' = FALSE
    /\ UNCHANGED <<inBuf, outBuf, pending, ctxState, wsOpen, ended, handed,
                   recvN, done, lastSig, expected, pvars>>
    /\ UNCHANGED <<rvars, avars>>

\* React renders LiveSession: the queued updaters run, in order.
Render ==
    /\ lanes /\ ~ended
    /\ transcripts' = ApplyUpdates(transcripts, updQ)
    /\ updQ' = <<>>
    /\ lanes' = FALSE
    /\ UNCHANGED <<inBuf, outBuf, pending, ctxState, wsOpen, ended, handed,
                   recvN, done, lastSig, expected, pvars>>
    /\ UNCHANGED <<rvars, avars>>

\* ws.onclose: the transport closed under the session.
WsClose ==
    /\ wsOpen /\ ~ended
    /\ wsOpen' = FALSE
    /\ lanes' = TRUE
    /\ UNCHANGED <<transcripts, updQ, inBuf, outBuf, pending, ctxState, ended,
                   handed, recvN, done, lastSig, expected, pvars>>
    /\ UNCHANGED <<rvars, avars>>

\* FlushPending without the push of the output buffer
FlushPending_NoModel(hist, i, o) ==
    IF Truthy(i) THEN Append(hist, Utt("user", i)) ELSE hist

\* "Push pending text if exists"
FlushPending(hist, i, o) ==
    LET h1 == IF Truthy(i) THEN Append(hist, Utt("user", i)) ELSE hist
    IN IF Truthy(o) THEN Append(h1, Utt("model", o)) ELSE h1

\* endSession: the user ends the session; transcripts is the rendered value.
endSession ==
    /\ ~ended
    /\ ended' = TRUE
    /\ handed' = FlushPending(transcripts, inBuf, outBuf)
    /\ wsOpen' = FALSE
    /\ UNCHANGED <<transcripts, updQ, lanes, inBuf, outBuf, pending, ctxState,
                   recvN, done, lastSig, expected, pvars>>
    /\ UNCHANGED <<rvars, avars>>

\* -------------------------------------------------------------------- relay
\* src/vite.config.ts, wss.on('connection', ...): one closure per client
\* connection, and the upstream sessions that ai.live.connect has created.

MaxStarts   == 2    \* start_session messages of one connection
MaxInputs   == 1    \* input messages of one connection
MaxUpEvents == 1    \* onmessage and onerror callbacks on one connection
MaxJunk     == 1    \* malformed or unrecognized frames of one connection

StatusMsg(st) == [type |-> "status", status |-> st]
GeminiMsg(d)  == [type |-> "gemini", data |-> d]
ErrorMsg      == [type |-> "error", message |-> "nonempty"]

\* ws.send(JSON.stringify(msg)) on the socket of connection c.
WsSend(c, msg) ==
    IF wsState[c] = "open"
    THEN /\ toClient' = [toClient EXCEPT ![c] = Append(@, msg)]
         /\ UNCHANGED deadSend
    ELSE /\ deadSend' = [deadSend EXCEPT ![c] = TRUE]
         /\ UNCHANGED toClient

UpsOf(c) == {u \in 1..Len(ups) : ups[u].conn = c}
Live(u) == ups[u].st \in {"connecting", "open"}

\* The callbacks counted so far on the first n upstream sessions of c.
RECURSIVE UpEvents(_, _)
UpEvents(c, n) ==
    IF n = 0 THEN 0
    ELSE UpEvents(c, n - 1)
         + (IF ups[n].conn = c THEN ups[n].got + ups[n].errs ELSE 0)

\* msg.type === 'start_session': ai.live.connect(...) is called and awaited.
StartSession(c) ==
    /\ wsState[c] = "open"
    /\ starts' = [starts EXCEPT ![c] = @ + 1]
    /\ ups' = Append(ups, [conn |-> c, st |-> "connecting", got |-> 0,
                           errs |-> 0, sent |-> <<>>])
    /\ UNCHANGED <<conns, hasKey, session, wsState, toClient, deadSend, inputs, junk>>
    /\ UNCHANGED <<cvars, avars>>

\* ConnectOpen with an onopen that only logs
ConnectOpen_Silent(u) ==
    /\ ups[u].st = "connecting"
    /\ ups' = [ups EXCEPT ![u].st = "open"]
    /\ session' = [session EXCEPT ![ups[u].conn] = u]
    /\ UNCHANGED <<conns, hasKey, wsState, toClient, deadSend, starts, inputs,
                   junk>>
    /\ UNCHANGED <<cvars, avars>>

\* ConnectOpen whose session is not yet assigned when the next frame is handled
ConnectOpen_NotAssigned(u) ==
    /\ ups[u].st = "connecting"
    /\ ups' = [ups EXCEPT ![u].st = "open"]
    /\ WsSend(ups[u].conn, StatusMsg("open"))
    /\ UNCHANGED <<conns, hasKey, session, wsState, starts, inputs, junk>>
    /\ UNCHANGED <<cvars, avars>>

\* callbacks.onopen, then the awaited connect resolves: session = <the new one>.
ConnectOpen(u) ==
    /\ ups[u].st = "connecting"
    /\ ups' = [ups EXCEPT ![u].st = "open"]
    /\ WsSend(ups[u].conn, StatusMsg("open"))
    /\ session' = [session EXCEPT ![ups[u].conn] = u]
    /\ UNCHANGED <<conns, hasKey, wsState, starts, inputs, junk>>
    /\ UNCHANGED <<cvars, avars>>

\* ConnectFail that also closes the client socket, ws.close(1011, ...)
ConnectFail_ClosesWs(u) ==
    /\ ups[u].st = "connecting"
    /\ ups' = [ups EXCEPT ![u].st = "failed"]
    /\ wsState' = [wsState EXCEPT ![ups[u].conn] = "closed"]
    /\ UNCHANGED <<conns, hasKey, session, toClient, deadSend, starts, inputs,
                   junk>>
    /\ UNCHANGED <<cvars, avars>>

\* ai.live.connect throws: catch (e) { ws.send({type: 'error', ...}) }
ConnectFail(u) ==
    /\ ups[u].st = "connecting"
    /\ ups' = [ups EXCEPT ![u].st = "failed"]
    /\ WsSend(ups[u].conn, ErrorMsg)
    /\ UNCHANGED <<conns, hasKey, session, wsState, starts, inputs, junk>>
    /\ UNCHANGED <<cvars, avars>>

\* UpMessage that forwards the event twice
UpMessage_SendsTwice(u) ==
    /\ ups[u].st = "open"
    /\ ups' = [ups EXCEPT ![u].got = @ + 1]
    /\ toClient' = [toClient EXCEPT ![ups[u].conn] =
                       @ \o <<GeminiMsg(<<u, ups[u].got + 1>>),
                              GeminiMsg(<<u, ups[u].got + 1>>)>>]
    /\ UNCHANGED <<conns, hasKey, session, wsState, deadSend, starts, inputs,
                   junk>>
    /\ UNCHANGED <<cvars, avars>>

\* callbacks.onmessage
UpMessage(u) ==
    /\ ups[u].st = "open"
    /\ ups' = [ups EXCEPT ![u].got = @ + 1]
    /\ WsSend(ups[u].conn, GeminiMsg(<<u, ups[u].got + 1>>))
    /\ UNCHANGED <<conns, hasKey, session, wsState, starts, inputs, junk>>
    /\ UNCHANGED <<cvars, avars>>

\* UpClose that closes the client socket, onclose: () => ws.close()
UpClose_ClosesClient(u) ==
    /\ ups[u].st = "open"
    /\ ups' = [ups EXCEPT ![u].st = "closed"]
    /\ wsState' = [wsState EXCEPT ![ups[u].conn] = "closed"]
    /\ UNCHANGED <<conns, hasKey, session, toClient, deadSend, starts, inputs,
                   junk>>
    /\ UNCHANGED <<cvars, avars>>

\* callbacks.onclose: the provider closed the session.
UpClose(u) ==
    /\ ups[u].st = "open"
    /\ ups' = [ups EXCEPT ![u].st = "closed"]
    /\ WsSend(ups[u].conn, StatusMsg("closed"))
    /\ UNCHANGED <<conns, hasKey, session, wsState, starts, inputs, junk>>
    /\ UNCHANGED <<cvars, avars>>

\* UpError that only logs, onerror: (e) => console.error(e)
UpError_LogOnly(u) ==
    /\ Live(u)
    /\ ups' = [ups EXCEPT ![u].errs = @ + 1]
    /\ UNCHANGED <<conns, hasKey, session, wsState, toClient, deadSend, starts,
                   inputs, junk>>
    /\ UNCHANGED <<cvars, avars>>

\* callbacks.onerror
UpError(u) ==
    /\ Live(u)
    /\ ups' = [ups EXCEPT ![u].errs = @ + 1]
    /\ WsSend(ups[u].conn, ErrorMsg)
    /\ UNCHANGED <<conns, hasKey, session, wsState, starts, inputs, junk>>
    /\ UNCHANGED <<cvars, avars>>

\* Input with one session variable for all connections, "let session" outside
\* wss.on('connection'): the session that any connection opened last
Input_SharedSession(c) ==
    /\ wsState[c] = "open"
    /\ inputs' = [inputs EXCEPT ![c] = @ + 1]
    /\ LET t == CHOOSE u \in {session[d] : d \in conns} :
                    \A d \in conns : session[d] <= u
       IN ups' = IF t # 0
                 THEN [ups EXCEPT ![t].sent = Append(@, <<c, inputs[c] + 1>>)]
                 ELSE ups
    /\ UNCHANGED <<conns, hasKey, session, wsState, toClient, deadSend, starts, junk>>
    /\ UNCHANGED <<cvars, avars>>

\* Input that hands the payloads over newest first
Input_Prepends(c) ==
    /\ wsState[c] = "open"
    /\ inputs' = [inputs EXCEPT ![c] = @ + 1]
    /\ ups' = IF session[c] # 0
              THEN [ups EXCEPT ![session[c]].sent = <<<<c, inputs[c] + 1>>>> \o @]
              ELSE ups
    /\ UNCHANGED <<conns, hasKey, session, wsState, toClient, deadSend, starts, junk>>
    /\ UNCHANGED <<cvars, avars>>

\* Input that answers an input without a session with an error message
Input_ErrorOnNull(c) ==
    /\ wsState[c] = "open"
    /\ inputs' = [inputs EXCEPT ![c] = @ + 1]
    /\ IF session[c] # 0
       THEN /\ ups' = [ups EXCEPT ![session[c]].sent =
                                      Append(@, <<c, inputs[c] + 1>>)]
            /\ UNCHANGED <<toClient, deadSend>>
       ELSE /\ WsSend(c, ErrorMsg)
            /\ UNCHANGED ups
    /\ UNCHANGED <<conns, hasKey, session, wsState, starts, junk>>
    /\ UNCHANGED <<cvars, avars>>

\* msg.type === 'input': session.sendRealtimeInput(msg.payload) if (session).
Input(c) ==
    /\ wsState[c] = "open"
    /\ inputs' = [inputs EXCEPT ![c] = @ + 1]
    /\ ups' = IF session[c] # 0
              THEN [ups EXCEPT ![session[c]].sent = Append(@, <<c, inputs[c] + 1>>)]
              ELSE ups
    /\ UNCHANGED <<conns, hasKey, session, wsState, toClient, deadSend, starts, junk>>
    /\ UNCHANGED <<cvars, avars>>

\* BadFrame without the try/catch around JSON.parse: the rejection of the
\* async handler is unhandled and the process, with its sockets, goes down.
BadFrame_Uncaught(c) ==
    /\ wsState[c] = "open"
    /\ junk' = [junk EXCEPT ![c] = @ + 1]
    /\ wsState' = [d \in conns |-> "closed"]
    /\ UNCHANGED <<conns, hasKey, session, toClient, deadSend, starts,
                   inputs, ups>>
    /\ UNCHANGED <<cvars, avars>>

\* A frame that is not JSON: JSON.parse throws, catch (err) logs it.
BadFrame(c) ==
    /\ wsState[c] = "open"
    /\ junk' = [junk EXCEPT ![c] = @ + 1]
    /\ UNCHANGED <<conns, hasKey, session, wsState, toClient, deadSend, starts,
                   inputs, ups>>
    /\ UNCHANGED <<cvars, avars>>

\* A frame whose type is neither 'start_session' nor 'input': no branch runs.
UnknownType(c) ==
    /\ wsState[c] = "open"
    /\ junk' = [junk EXCEPT ![c] = @ + 1]
    /\ UNCHANGED <<conns, hasKey, session, wsState, toClient, deadSend, starts,
                   inputs, ups>>
    /\ UNCHANGED <<cvars, avars>>

\* ws.on('close'): if (session) session = null
ClientClose(c) ==
    /\ wsState[c] = "open"
    /\ wsState' = [wsState EXCEPT ![c] = "closed"]
    /\ session' = [session EXCEPT ![c] = 0]
    /\ UNCHANGED <<conns, hasKey, toClient, deadSend, starts, inputs, junk, ups>>
    /\ UNCHANGED <<cvars, avars>>

RelayInit ==
    /\ conns = {"A"}
    /\ hasKey \in BOOLEAN
    /\ session = [c \in conns |-> 0]
    /\ wsState = [c \in conns |-> "open"]
    /\ toClient = [c \in conns |-> <<>>]
    /\ deadSend = [c \in conns |-> FALSE]
    /\ starts = [c \in conns |-> 0]
    /\ inputs = [c \in conns |-> 0]
    /\ junk = [c \in conns |-> 0]
    /\ ups = <<>>

\* The frames and callbacks the environment may still deliver to c.
MayStart(c)  == starts[c] < MaxStarts
MayInput(c)  == inputs[c] < MaxInputs
MayJunk(c)   == junk[c] < MaxJunk
MayUpEvent(c) == UpEvents(c, Len(ups)) < MaxUpEvents

NextRelay ==
    \/ \E c \in conns : MayStart(c) /\ StartSession(c)
    \/ \E u \in 1..Len(ups) : ConnectOpen(u)
    \/ \E u \in 1..Len(ups) : ConnectFail(u)
    \/ \E u \in 1..Len(ups) : MayUpEvent(ups[u].conn) /\ UpMessage(u)
    \/ \E u \in 1..Len(ups) : UpClose(u)
    \/ \E u \in 1..Len(ups) : MayUpEvent(ups[u].conn) /\ UpError(u)
    \/ \E c \in conns : MayInput(c) /\ Input(c)
    \/ \E c \in conns : MayJunk(c) /\ BadFrame(c)
    \/ \E c \in conns : MayJunk(c) /\ UnknownType(c)
    \/ \E c \in conns : ClientClose(c)

\* One connection with a credential, one start_session, and several input
\* frames and upstream events: the order in which the relay passes them on.
OrdStarts   == 1
OrdInputs   == 2
OrdUpEvents == 2

OrderInit ==
    /\ RelayInit
    /\ hasKey

NextOrder ==
    \/ \E c \in conns : starts[c] < OrdStarts /\ StartSession(c)
    \/ \E u \in 1..Len(ups) : ConnectOpen(u)
    \/ \E u \in 1..Len(ups) : ConnectFail(u)
    \/ \E u \in 1..Len(ups) :
          UpEvents(ups[u].conn, Len(ups)) < OrdUpEvents /\ UpMessage(u)
    \/ \E u \in 1..Len(ups) : UpClose(u)
    \/ \E u \in 1..Len(ups) :
          UpEvents(ups[u].conn, Len(ups)) < OrdUpEvents /\ UpError(u)
    \/ \E c \in conns : inputs[c] < OrdInputs /\ Input(c)
    \/ \E c \in conns : ClientClose(c)

\* One connection that sends start_session once and then input frames and
\* frames the relay cannot use.
FrmStarts   == 1
FrmInputs   == 1
FrmJunk     == 1
FrmUpEvents == 1

NextFrames ==
    \/ \E c \in conns : starts[c] < FrmStarts /\ StartSession(c)
    \/ \E u \in 1..Len(ups) : ConnectOpen(u)
    \/ \E u \in 1..Len(ups) : ConnectFail(u)
    \/ \E u \in 1..Len(ups) :
          UpEvents(ups[u].conn, Len(ups)) < FrmUpEvents /\ UpMessage(u)
    \/ \E u \in 1..Len(ups) : UpClose(u)
    \/ \E c \in conns : inputs[c] < FrmInputs /\ Input(c)
    \/ \E c \in conns : junk[c] < FrmJunk /\ BadFrame(c)
    \/ \E c \in conns : junk[c] < FrmJunk /\ UnknownType(c)
    \/ \E c \in conns : ClientClose(c)

\* One connection that sends start_session several times, with or without a
\* credential, and sends no input: what the relay reports of each open.
OpenStarts   == 2
OpenUpEvents == 1

NextOpen ==
    \/ \E c \in conns : starts[c] < OpenStarts /\ StartSession(c)
    \/ \E u \in 1..Len(ups) : ConnectOpen(u)
    \/ \E u \in 1..Len(ups) : ConnectFail(u)
    \/ \E u \in 1..Len(ups) :
          UpEvents(ups[u].conn, Len(ups)) < OpenUpEvents /\ UpMessage(u)
    \/ \E u \in 1..Len(ups) : UpClose(u)
    \/ \E u \in 1..Len(ups) :
          UpEvents(ups[u].conn, Len(ups)) < OpenUpEvents /\ UpError(u)
    \/ \E c \in conns : ClientClose(c)

\* Two client connections at once, each with its own closure; each client
\* sends start_session once, in ws.onopen, as LiveSession does.
PairInputs   == 1
PairUpEvents == 1

PairInit ==
    /\ conns = {"A", "B"}
    /\ hasKey = TRUE
    /\ session = [c \in conns |-> 0]
    /\ wsState = [c \in conns |-> "open"]
    /\ toClient = [c \in conns |-> <<>>]
    /\ deadSend = [c \in conns |-> FALSE]
    /\ starts = [c \in conns |-> 0]
    /\ inputs = [c \in conns |-> 0]
    /\ junk = [c \in conns |-> 0]
    /\ ups = <<>>

NextPair ==
    \/ \E c \in conns : starts[c] = 0 /\ StartSession(c)
    \/ \E u \in 1..Len(ups) : ConnectOpen(u)
    \/ \E u \in 1..Len(ups) : ConnectFail(u)
    \/ \E u \in 1..Len(ups) :
          UpEvents(ups[u].conn, Len(ups)) < PairUpEvents /\ UpMessage(u)
    \/ \E u \in 1..Len(ups) : UpClose(u)
    \/ \E u \in 1..Len(ups) :
          UpEvents(ups[u].conn, Len(ups)) < PairUpEvents /\ UpError(u)
    \/ \E c \in conns : inputs[c] < PairInputs /\ Input(c)
    \/ \E c \in conns : ClientClose(c)

\* The part of the state each specification leaves alone.
IdleRelay ==
    /\ conns = {}
    /\ hasKey = TRUE
    /\ session = <<>>
    /\ wsState = <<>>
    /\ toClient = <<>>
    /\ deadSend = <<>>
    /\ starts = <<>>
    /\ inputs = <<>>
    /\ junk = <<>>
    /\ ups = <<>>


\* ------------------------------------------------------------ application
\* src/App.tsx, the connection handling of src/components/LiveSession.tsx,
\* generateEvaluation and POST /api/evaluate.

MaxFrames  == 2     \* input messages the streams send on one socket
MaxSrvMsgs == 1     \* events and errors of one upstream session
MaxSeconds == 30    \* seconds that pass while snapshots are taken

EVAL_IMAGE_INTERVAL == 3000
MAX_EVAL_IMAGES == 10
SecondMs == 1000

\* EvaluationReport
Report(score, visual, summary, strengths, weaknesses, tips) ==
    [score |-> score, visualAnalysis |-> visual, summary |-> summary,
     strengths |-> strengths, weaknesses |-> weaknesses, tips |-> tips]

\* The report of the catch branch of generateEvaluation.
Placeholder ==
    Report(0, [visualScore |-> 0, smileDetected |-> FALSE],
           "failed", <<>>, <<>>, <<"start the server">>)

\* A report as the model returns it under responseSchema.
ModelReport ==
    Report(80, [visualScore |-> 70, smileDetected |-> TRUE],
           "good", <<"s">>, <<"w">>, <<"t">>)

\* What fetch yields: no response (it rejects), or a status and a body.
Response(arrived, ok, body) == [arrived |-> arrived, ok |-> ok, body |-> body]
NoResponse == Response(FALSE, FALSE, "none")

\* What ai.models.generateContent can do.
GenOutcomes == {"json", "notjson", "empty", "throws"}

\* POST /api/evaluate: 200 with the parsed report, or 500 from catch (error).
EvaluateEndpoint(key, gen) ==
    IF ~key THEN Response(TRUE, FALSE, "error")
    ELSE IF gen = "json" THEN Response(TRUE, TRUE, "report")
    ELSE Response(TRUE, FALSE, "error")

\* What reaches the browser: the answer of the endpoint, nothing, or the page
\* of something in between that is not JSON.
Transports == {"direct", "down", "garbled", "gateway"}
Fetch(key, gen, via) ==
    CASE via = "direct"  -> EvaluateEndpoint(key, gen)
      [] via = "down"    -> NoResponse
      [] via = "garbled" -> Response(TRUE, TRUE, "garbage")
      [] via = "gateway" -> Response(TRUE, FALSE, "garbage")

\* How a promise settles.
Resolved(v) == [rejected |-> FALSE, value |-> v]
Rejected    == [rejected |-> TRUE, value |-> "none"]

\* generateEvaluation without its try/catch
generateEvaluation_NoCatch(res) ==
    IF ~res.arrived THEN Rejected
    ELSE IF ~res.ok THEN Rejected
    ELSE IF res.body = "garbage" THEN Rejected
    ELSE Resolved(ModelReport)

\* generateEvaluation: every throw inside try ends in the placeholder.
generateEvaluation(res) ==
    IF ~res.arrived THEN Resolved(Placeholder)
    ELSE IF ~res.ok THEN Resolved(Placeholder)
    ELSE IF res.body = "garbage" THEN Resolved(Placeholder)
    ELSE Resolved(ModelReport)

\* The messages of the relay as ws.onmessage reads them; the two error
\* messages differ in their text.
ConfigErrorMsg  == [type |-> "error", message |-> "credential"]
ConnectErrorMsg == [type |-> "error", message |-> "connect"]
StreamErrorMsg  == [type |-> "error", message |-> "stream"]

\* setError of the error branch of ws.onmessage: a prefix and the message.
ServerError(message) == <<"server", message>>

\* The state of a LiveSession that has just mounted.
MountLive ==
    /\ hasStarted' = FALSE /\ initializing' = FALSE /\ isConnected' = FALSE
    /\ error' = <<>> /\ media' = "idle" /\ sock' = "none"
    /\ mic' = FALSE /\ cam' = FALSE
    /\ srv' = "none" /\ srvN' = 0 /\ inbox' = <<>>
    /\ sent' = 0 /\ startsSent' = 0
    /\ closedSeen' = FALSE /\ openSeen' = FALSE /\ endedRun' = FALSE
    /\ evalImages' = 0 /\ lastEval' = 0

livevars == <<hasStarted, initializing, isConnected, error, media, sock, mic,
              cam, srv, srvN, inbox, sent, startsSent, closedSeen, openSeen,
              endedRun, evalImages, lastEval>>
appvars == <<appState, scenario, report, generating, evalPhase, fetchRes, now>>

\* A state setter of LiveSession: it does nothing once the component has
\* unmounted.
IfMounted(new, old) == IF endedRun THEN old ELSE new

\* IDLE: the button to the scenario list.
GoSetup ==
    /\ appState = "IDLE"
    /\ appState' = "SETUP"
    /\ UNCHANGED <<scenario, report, generating, evalPhase, fetchRes, now,
                   livevars>>
    /\ UNCHANGED <<cvars, rvars>>

\* SETUP: back to the landing page.
BackHome ==
    /\ appState = "SETUP"
    /\ appState' = "IDLE"
    /\ UNCHANGED <<scenario, report, generating, evalPhase, fetchRes, now,
                   livevars>>
    /\ UNCHANGED <<cvars, rvars>>

\* startScenario: LiveSession mounts.
startScenario ==
    /\ appState = "SETUP"
    /\ scenario' = "s1"
    /\ appState' = "SESSION"
    /\ MountLive
    /\ UNCHANGED <<report, generating, evalPhase, fetchRes, now>>
    /\ UNCHANGED <<cvars, rvars>>

\* startSession, and initializeSession up to its await of getUserMedia.
startSession ==
    /\ appState = "SESSION" /\ ~hasStarted
    /\ hasStarted' = TRUE
    /\ initializing' = TRUE
    /\ error' = <<>>
    /\ media' = "pending"
    /\ UNCHANGED <<isConnected, sock, mic, cam, srv, srvN, inbox, sent,
                   startsSent, closedSeen, openSeen, endedRun, appvars>>
    /\ UNCHANGED <<evalImages, lastEval>>
    /\ UNCHANGED <<cvars, rvars>>

\* getUserMedia settles and initializeSession goes on: the audio contexts and
\* new WebSocket, or catch (err), which sets the error.
MediaSettles(mediaOK) ==
    /\ media = "pending"
    /\ IF mediaOK
       THEN /\ media' = "granted"
            /\ sock' = "connecting"
            /\ UNCHANGED <<error, initializing>>
       ELSE /\ media' = "failed"
            /\ sock' = sock
            /\ error' = IfMounted(<<"init", "media">>, error)
            /\ initializing' = IfMounted(FALSE, initializing)
    /\ UNCHANGED <<hasStarted, isConnected, mic, cam, srv, srvN, inbox, sent,
                   startsSent, closedSeen, openSeen, endedRun, appvars>>
    /\ UNCHANGED <<evalImages, lastEval>>
    /\ UNCHANGED <<cvars, rvars>>

\* ws.onopen that also starts the two streams
SockOpen_StartsStreams ==
    /\ sock = "connecting"
    /\ sock' = "open"
    /\ srv' = "connecting"
    /\ startsSent' = startsSent + 1
    /\ mic' = TRUE
    /\ cam' = TRUE
    /\ UNCHANGED <<hasStarted, initializing, isConnected, error, media,
                   srvN, inbox, sent, closedSeen, openSeen, endedRun, appvars>>
    /\ UNCHANGED <<evalImages, lastEval>>
    /\ UNCHANGED <<cvars, rvars>>

\* ws.onopen: start_session is sent and the relay calls ai.live.connect.
SockOpen ==
    /\ sock = "connecting"
    /\ sock' = "open"
    /\ srv' = "connecting"
    /\ startsSent' = startsSent + 1
    /\ UNCHANGED <<hasStarted, initializing, isConnected, error, media, mic,
                   cam, srvN, inbox, sent, closedSeen, openSeen, endedRun,
                   appvars>>
    /\ UNCHANGED <<evalImages, lastEval>>
    /\ UNCHANGED <<cvars, rvars>>

\* The relay, as this socket sees it: onopen, the catch of a connect that
\* failed (for want of the credential, or for another reason), onmessage,
\* onerror and onclose each send their message.
RelaySends ==
    /\ sock = "open"
    /\ \/ /\ srv = "connecting"
          /\ srv' = "open" /\ inbox' = Append(inbox, StatusMsg("open"))
          /\ srvN' = srvN
       \/ /\ srv = "connecting"
          /\ srv' = "failed" /\ inbox' = Append(inbox, ConfigErrorMsg)
          /\ srvN' = srvN
       \/ /\ srv = "connecting"
          /\ srv' = "failed" /\ inbox' = Append(inbox, ConnectErrorMsg)
          /\ srvN' = srvN
       \/ /\ srv = "open" /\ srvN < MaxSrvMsgs
          /\ srv' = srv /\ inbox' = Append(inbox, GeminiMsg(srvN + 1))
          /\ srvN' = srvN + 1
       \/ /\ srv = "open" /\ srvN < MaxSrvMsgs
          /\ srv' = srv /\ inbox' = Append(inbox, StreamErrorMsg)
          /\ srvN' = srvN + 1
       \/ /\ srv = "open"
          /\ srv' = "closed" /\ inbox' = Append(inbox, StatusMsg("closed"))
          /\ srvN' = srvN
    /\ UNCHANGED <<hasStarted, initializing, isConnected, error, media, sock,
                   mic, cam, sent, startsSent, closedSeen, openSeen, endedRun,
                   appvars>>
    /\ UNCHANGED <<evalImages, lastEval>>
    /\ UNCHANGED <<cvars, rvars>>

\* ws.onmessage
OnMessage ==
    /\ sock = "open"
    /\ inbox # <<>>
    /\ inbox' = Tail(inbox)
    /\ LET msg == Head(inbox)
       IN IF msg.type = "status" /\ msg.status = "open"
          THEN /\ isConnected' = IfMounted(TRUE, isConnected)
               /\ initializing' = IfMounted(FALSE, initializing)
               /\ mic' = TRUE
               /\ cam' = TRUE
               /\ openSeen' = TRUE
               /\ UNCHANGED <<error, closedSeen>>
          ELSE IF msg.type = "gemini"
          THEN UNCHANGED <<isConnected, initializing, mic, cam, error,
                           closedSeen, openSeen>>
          ELSE IF msg.type = "error"
          THEN /\ error' = IfMounted(ServerError(msg.message), error)
               /\ initializing' = IfMounted(FALSE, initializing)
               /\ UNCHANGED <<isConnected, mic, cam, closedSeen, openSeen>>
          ELSE /\ closedSeen' = (closedSeen \/ msg = StatusMsg("closed"))
               /\ UNCHANGED <<isConnected, initializing, mic, cam, error,
                              openSeen>>
    /\ UNCHANGED <<hasStarted, media, sock, srv, srvN, sent, startsSent,
                   endedRun, appvars>>
    /\ UNCHANGED <<evalImages, lastEval>>
    /\ UNCHANGED <<cvars, rvars>>

\* processor.onaudioprocess: one audio chunk, sent if the socket is open.
AudioFrame ==
    /\ mic
    /\ sock = "open"
    /\ sent < MaxFrames
    /\ sent' = sent + 1
    /\ UNCHANGED <<hasStarted, initializing, isConnected, error, media, sock,
                   mic, cam, srv, srvN, inbox, startsSent, closedSeen,
                   openSeen, endedRun, appvars>>
    /\ UNCHANGED <<evalImages, lastEval>>
    /\ UNCHANGED <<cvars, rvars>>

\* The interval callback without the test of the number of snapshots
VideoFrame_NoCap ==
    /\ appState = "SESSION" /\ cam
    /\ sock = "open" => sent < MaxFrames
    /\ sent' = IF sock = "open" THEN sent + 1 ELSE sent
    /\ IF now - lastEval >= EVAL_IMAGE_INTERVAL
       THEN /\ evalImages' = evalImages + 1
            /\ lastEval' = now
       ELSE UNCHANGED <<evalImages, lastEval>>
    /\ UNCHANGED <<hasStarted, initializing, isConnected, error, media, sock,
                   mic, cam, srv, srvN, inbox, startsSent, closedSeen,
                   openSeen, endedRun, appvars>>
    /\ UNCHANGED <<cvars, rvars>>

\* The interval callback of startVideoStreaming, which runs while the video
\* element is there (the component is mounted): the frame is sent if the
\* socket is open, and kept as a snapshot for the evaluation if the last one
\* is old enough and there is room.
VideoFrame ==
    /\ appState = "SESSION" /\ cam
    /\ sock = "open" => sent < MaxFrames
    /\ sent' = IF sock = "open" THEN sent + 1 ELSE sent
    /\ IF now - lastEval >= EVAL_IMAGE_INTERVAL /\ evalImages < MAX_EVAL_IMAGES
       THEN /\ evalImages' = evalImages + 1
            /\ lastEval' = now
       ELSE UNCHANGED <<evalImages, lastEval>>
    /\ UNCHANGED <<hasStarted, initializing, isConnected, error, media, sock,
                   mic, cam, srv, srvN, inbox, startsSent, closedSeen,
                   openSeen, endedRun, appvars>>
    /\ UNCHANGED <<cvars, rvars>>

\* A second passes.
SecondPasses ==
    /\ now < EVAL_IMAGE_INTERVAL + MaxSeconds * SecondMs
    /\ now' = now + SecondMs
    /\ UNCHANGED <<appState, scenario, report, generating, evalPhase, fetchRes,
                   livevars>>
    /\ UNCHANGED <<cvars, rvars>>

\* ws.onclose: the socket closed or could not be opened.
SockClose ==
    /\ sock \in {"connecting", "open"}
    /\ sock' = "closed"
    /\ isConnected' = IfMounted(FALSE, isConnected)
    /\ inbox' = <<>>
    /\ UNCHANGED <<hasStarted, initializing, error, media, mic, cam, srv, srvN,
                   sent, startsSent, closedSeen, openSeen, endedRun, appvars>>
    /\ UNCHANGED <<evalImages, lastEval>>
    /\ UNCHANGED <<cvars, rvars>>

\* The button of the error toast: window.location.reload().
Reload ==
    /\ appState = "SESSION" /\ error # <<>>
    /\ appState' = "IDLE" /\ scenario' = "none" /\ report' = <<>>
    /\ generating' = FALSE /\ evalPhase' = "idle" /\ fetchRes' = NoResponse
    /\ now' = now
    /\ MountLive
    /\ UNCHANGED <<cvars, rvars>>

\* handleSessionEnd without setIsGeneratingReport(true)
handleSessionEnd_NoSpinner ==
    /\ appState = "SESSION"
    /\ mic' = FALSE /\ cam' = FALSE
    /\ sock' = IF sock = "none" THEN "none" ELSE "closed"
    /\ inbox' = <<>>
    /\ endedRun' = TRUE
    /\ appState' = "REPORT"
    /\ evalPhase' = IF scenario # "none" THEN "fetching" ELSE evalPhase
    /\ UNCHANGED <<scenario, report, generating, fetchRes, hasStarted,
                   initializing, isConnected, error, media, srv, srvN, sent,
                   startsSent, closedSeen, openSeen, now, evalImages,
                   lastEval>>
    /\ UNCHANGED <<cvars, rvars>>

\* endSession stops the streams and closes the socket, then handleSessionEnd:
\* the report view, and generateEvaluation is called.
handleSessionEnd ==
    /\ appState = "SESSION"
    /\ mic' = FALSE /\ cam' = FALSE
    /\ sock' = IF sock = "none" THEN "none" ELSE "closed"
    /\ inbox' = <<>>
    /\ endedRun' = TRUE
    /\ appState' = "REPORT"
    /\ generating' = TRUE
    /\ evalPhase' = IF scenario # "none" THEN "fetching" ELSE evalPhase
    /\ UNCHANGED <<scenario, report, fetchRes, hasStarted, initializing,
                   isConnected, error, media, srv, srvN, sent, startsSent,
                   closedSeen, openSeen, now, evalImages, lastEval>>
    /\ UNCHANGED <<cvars, rvars>>

\* The awaited generateEvaluation settles: setReport, setIsGeneratingReport.
EvaluationSettles(key, gen, via) ==
    /\ evalPhase = "fetching"
    /\ fetchRes' = Fetch(key, gen, via)
    /\ LET r == generateEvaluation(Fetch(key, gen, via))
       IN IF r.rejected
          THEN /\ evalPhase' = "rejected"
               /\ UNCHANGED <<report, generating>>
          ELSE /\ evalPhase' = "done"
               /\ report' = <<r.value>>
               /\ generating' = FALSE
    /\ UNCHANGED <<appState, scenario, now, livevars>>
    /\ UNCHANGED <<cvars, rvars>>

\* resetApp, from the buttons of the report view.
resetApp ==
    /\ appState = "REPORT" /\ ~generating
    /\ appState' = "IDLE"
    /\ report' = <<>>
    /\ scenario' = "none"
    /\ evalPhase' = "idle"
    /\ fetchRes' = NoResponse
    /\ UNCHANGED <<generating, now, livevars>>
    /\ UNCHANGED <<cvars, rvars>>

AppInit ==
    /\ appState = "IDLE" /\ scenario = "none" /\ report = <<>>
    /\ generating = FALSE /\ evalPhase = "idle" /\ fetchRes = NoResponse
    /\ hasStarted = FALSE /\ initializing = FALSE /\ isConnected = FALSE
    /\ error = <<>> /\ media = "idle" /\ sock = "none"
    /\ mic = FALSE /\ cam = FALSE
    /\ srv = "none" /\ srvN = 0 /\ inbox = <<>>
    /\ sent = 0 /\ startsSent = 0
    /\ closedSeen = FALSE /\ openSeen = FALSE /\ endedRun = FALSE
    /\ now = EVAL_IMAGE_INTERVAL /\ evalImages = 0 /\ lastEval = 0

NextApp ==
    \/ GoSetup
    \/ BackHome
    \/ startScenario
    \/ startSession
    \/ \E mediaOK \in BOOLEAN : MediaSettles(mediaOK)
    \/ SockOpen
    \/ RelaySends
    \/ OnMessage
    \/ AudioFrame
    \/ VideoFrame
    \/ SockClose
    \/ Reload
    \/ handleSessionEnd
    \/ \E key \in BOOLEAN, gen \in GenOutcomes, via \in Transports :
          EvaluationSettles(key, gen, via)
    \/ resetApp

\* One session whose camera runs while the seconds pass, with a socket that
\* opens, carries what the relay sends, and may close.
NextSnap ==
    \/ GoSetup
    \/ startScenario
    \/ startSession
    \/ MediaSettles(TRUE)
    \/ SockOpen
    \/ RelaySends
    \/ OnMessage
    \/ SockClose
    \/ VideoFrame
    \/ cam /\ SecondPasses
    \/ handleSessionEnd

\* ------------------------------------------------------------ specifications
LiveInit ==
    /\ transcripts = <<>>
    /\ updQ = <<>>
    /\ lanes = FALSE
    /\ inBuf = <<>>
    /\ outBuf = <<>>
    /\ pending = <<>>
    /\ ctxState = "running"
    /\ wsOpen = TRUE
    /\ ended = FALSE
    /\ handed = <<>>
    /\ recvN = 0
    /\ done = <<>>
    /\ lastSig = Sig(NoContentEv)
    /\ clock = 0
    /\ nextStart = 0
    /\ sources = {}
    /\ expected = <<>>

Next ==
    \/ \E e \in Events, eagerOK \in BOOLEAN : OnGemini(e, eagerOK)
    \/ \E eagerOK \in BOOLEAN : ResumeDone(eagerOK)
    \/ \E eagerOK, decoded \in BOOLEAN : DecodeDone(eagerOK, decoded)
    \/ Tick
    \/ \E t \in sources : SourceEnded(t)
    \/ CtxSuspend
    \/ Render
    \/ WsClose
    \/ endSession

Init == LiveInit /\ IdleRelay /\ AppInit

Spec == Init /\ [][Next]_vars

InitRelay == RelayInit /\ LiveInit /\ AppInit

InitOrder == OrderInit /\ LiveInit /\ AppInit
SpecOrder == InitOrder /\ [][NextOrder]_vars

InitPair == PairInit /\ LiveInit /\ AppInit
SpecPair == InitPair /\ [][NextPair]_vars

InitFrames == RelayInit /\ LiveInit /\ AppInit
SpecFrames == InitFrames /\ [][NextFrames]_vars

InitOpen == RelayInit /\ LiveInit /\ AppInit
SpecOpen == InitOpen /\ [][NextOpen]_vars

InitSnap == AppInit /\ LiveInit /\ IdleRelay
SpecSnap == InitSnap /\ [][NextSnap]_vars

InitApp == AppInit /\ LiveInit /\ IdleRelay
SpecApp == InitApp /\ [][NextApp]_vars

\* The application with what is bound to happen: getUserMedia settles, a
\* connecting socket opens or fails, ai.live.connect resolves or throws, and
\* a message that arrived on an open socket is handled. What the user does,
\* and what the provider does with an open session, may never happen.
FairApp ==
    /\ WF_vars(\E mediaOK \in BOOLEAN : MediaSettles(mediaOK))
    /\ WF_vars(sock = "connecting" /\ (SockOpen \/ SockClose))
    /\ WF_vars(srv = "connecting" /\ RelaySends)
    /\ WF_vars(OnMessage)
InitAppLive == AppInit /\ LiveInit /\ IdleRelay
SpecAppLive == InitAppLive /\ [][NextApp]_vars /\ FairApp

SpecRelay == InitRelay /\ [][NextRelay]_vars

\* ------------------------------------------------------------- properties
HasMarker(t) ==
    /\ Len(t) >= Len(Marker)
    /\ SubSeq(t, Len(t) - Len(Marker) + 1, Len(t)) = Marker

Count(q, x) == Cardinality({i \in 1..Len(q) : q[i] = x})

\* C1: every Utterance a turn-complete commits carries the full concatenation
\* of its role's deltas since the last flush: each rendered Utterance equals
\* the buffer content recorded when its commit was made.
C1_CommitsFullText ==
    \A i \in 1..Len(transcripts) :
        ~HasMarker(expected[i].text) => transcripts[i] = expected[i]

\* C2: an interruption on a non-empty output buffer commits one model
\* Utterance whose text is the buffer content followed by the marker.
C2_InterruptionCommitsMarked ==
    \A i \in 1..Len(transcripts) :
        HasMarker(expected[i].text) =>
            /\ transcripts[i].role = "model"
            /\ transcripts[i].text = expected[i].text

\* C3: a connection never has more than one upstream session that is open or
\* being opened.
C3_AtMostOneUpstream ==
    \A c \in conns : Cardinality({u \in UpsOf(c) : Live(u)}) <= 1

C5_AppliedInArrivalOrder ==
    \A i, j \in 1..Len(done) : i < j => done[i] < done[j]

\* C6: no ws.send is made on a client socket that has closed.
C6_NoSendAfterClose ==
    \A c \in conns : ~deadSend[c]

\* C7: once the client connection has closed, none of its upstream sessions
\* is open.
C7_UpstreamClosedOnDisconnect ==
    \A c \in conns :
        wsState[c] = "closed" => \A u \in UpsOf(c) : ups[u].st # "open"

\* C8: a turn-complete commits no Utterance for a role whose buffer is empty
\* or whitespace-only: every commit made by a turn-complete recorded a buffer
\* that is non-empty after trimming, and nothing else was enqueued.
C8_NoCommitOfBlankBuffer ==
    /\ Len(transcripts) + Len(updQ) = Len(expected)
    /\ \A i \in 1..Len(expected) :
          ~HasMarker(expected[i].text) => Truthy(Trim(expected[i].text))

\* C8 witness: a turn-complete was handled while the trainee buffer held only
\* whitespace, and no Utterance was committed.
C8_Witness ==
    /\ lastSig.tc /\ ~lastSig.int
    /\ inBuf = <<Space>> /\ pending = <<>>
    /\ transcripts = <<>> /\ updQ = <<>> /\ expected = <<>>

\* C9: after a turn-complete has been handled both buffers are empty.
C9_BuffersEmptyAfterTurnComplete ==
    lastSig.tc => (inBuf = <<>> /\ outBuf = <<>>)

\* C10: with no credential configured no upstream session is created and the
\* session variable stays null.
C10_NoCredentialNoSession ==
    ~hasKey => \A c \in conns : UpsOf(c) = {} /\ session[c] = 0

\* The upstream sessions whose state a step changes from one value to another.
Turns(u, from, to) ==
    /\ u <= Len(ups')
    /\ ups[u].st = from
    /\ ups'[u].st = to

\* The client of connection c is sent exactly msg by a step, if it is there.
Sends(c, msg) ==
    wsState[c] = "open" => toClient'[c] = Append(toClient[c], msg)

C12_EarlyInputDropped ==
    [][\A c \in conns :
         (inputs'[c] # inputs[c] /\ session[c] = 0) =>
            UNCHANGED <<session, wsState, toClient, deadSend, starts, junk,
                        ups>>]_vars

\* C12 witness: an input frame was handled while session was null, and the
\* one start_session of the connection opened a session that was sent nothing.
C12_Witness ==
    \E c \in conns :
        /\ inputs[c] >= 1 /\ starts[c] = 1
        /\ session[c] # 0
        /\ \A u \in UpsOf(c) : ups[u].sent = <<>>
        /\ toClient[c] = <<StatusMsg("open")>>

\* C13: the handling of an event with the interruption signal leaves the
\* output buffer empty, no source scheduled and the next playback time at the
\* current clock value, and the Utterance it commits for a buffer with content
\* is that content with the marker appended.
C13_InterruptionScenario ==
    [][/\ (done' # done /\ lastSig'.int) =>
            /\ outBuf' = <<>>
            /\ sources' = {}
            /\ nextStart' = clock'
            /\ Len(expected') <= Len(expected) + 1
       /\ \A i \in 1..Len(transcripts') :
             HasMarker(expected'[i].text) =>
                /\ HasMarker(transcripts'[i].text)
                /\ Len(transcripts'[i].text) = Len(expected'[i].text)]_vars

\* A start_session of connection c is handled by a step: a new upstream
\* session is being opened for it.
Opens(c) ==
    starts'[c] # starts[c] =>
        ups' = Append(ups, [conn |-> c, st |-> "connecting", got |-> 0,
                            errs |-> 0, sent |-> <<>>])

\* C14: when the provider closes an upstream session the client is sent one
\* status-closed message and its socket is left as it was; a start_session
\* handled after that opens a new upstream session.
C14_UpstreamCloseKeepsClient ==
    [][\A u \in 1..Len(ups) :
         /\ Turns(u, "open", "closed") =>
               /\ wsState' = wsState
               /\ Sends(ups[u].conn, StatusMsg("closed"))
         /\ ups[u].st = "closed" => Opens(ups[u].conn)]_vars

\* C14 witness: the first session of a connection was closed by the provider,
\* the client got the one status-closed message, its socket is open and a
\* second start_session has opened the session now in use.
C14_Witness ==
    \E c \in conns :
        /\ Len(ups) = 2 /\ UpsOf(c) = {1, 2}
        /\ ups[1].st = "closed" /\ ups[2].st = "open"
        /\ wsState[c] = "open" /\ session[c] = 2
        /\ toClient[c] = <<StatusMsg("open"), StatusMsg("closed"),
                           StatusMsg("open")>>

\* C15: an input frame handled after the provider closed an upstream session
\* is not passed to sendRealtimeInput of that session.
C15_NoInputToClosedSession ==
    [][\A c \in conns :
         inputs'[c] # inputs[c] =>
            \A u \in UpsOf(c) :
                ups[u].st = "closed" => ups'[u].sent = ups[u].sent]_vars

C17_ErrorEndsSession ==
    [][/\ \A c \in conns :
            inputs'[c] # inputs[c] =>
               \A u \in UpsOf(c) :
                   ups[u].errs > 0 => ups'[u].sent = ups[u].sent
       /\ Len(ups') # Len(ups) => \E c \in conns : starts'[c] # starts[c]]_vars

\* C18: a failed open sends the client an error message and leaves its socket
\* and the session variable as they were; a start_session handled after that
\* opens a new upstream session.
C18_OpenFailureLeavesConnection ==
    [][\A u \in 1..Len(ups) :
         /\ Turns(u, "connecting", "failed") =>
               /\ wsState' = wsState
               /\ session' = session
               /\ Sends(ups[u].conn, ErrorMsg)
         /\ ups[u].st = "failed" => Opens(ups[u].conn)]_vars

\* C18 witness: the first open of a connection failed with session null, the
\* client got the error message on its open socket, and a second start_session
\* opened the session now in use.
C18_Witness ==
    \E c \in conns :
        /\ Len(ups) = 2 /\ UpsOf(c) = {1, 2}
        /\ ups[1].st = "failed" /\ ups[2].st = "open"
        /\ wsState[c] = "open" /\ session[c] = 2
        /\ toClient[c] = <<ErrorMsg, StatusMsg("open")>>

IsPrefix(s, t) == Len(s) <= Len(t) /\ SubSeq(t, 1, Len(s)) = s

\* C19: the history endSession hands to onEndSession begins with every
\* Utterance committed so far, those whose state update is still queued
\* included, in commit order.
C19_HandsOverEveryCommit ==
    [][(~ended /\ ended') =>
         IsPrefix(ApplyUpdates(transcripts, updQ), handed')]_vars

\* C20: the Utterance sequence only grows at its end: across every step the
\* rendered sequence is a prefix of the next one, and the history handed over
\* at teardown begins with it.
C20_AppendOnly ==
    [][/\ IsPrefix(transcripts, transcripts')
       /\ (~ended /\ ended') => IsPrefix(transcripts, handed')]_vars

\* C20 witness: a turn-complete committed a trainee Utterance and a later
\* interruption a customer Utterance, and the session ended with the two
\* handed over in commit order.
C20_Witness ==
    /\ ended
    /\ Len(transcripts) = 2
    /\ transcripts[1].role = "user" /\ transcripts[2].role = "model"
    /\ HasMarker(transcripts[2].text)
    /\ handed = transcripts

\* The gemini messages of upstream session u that the client of c was sent.
FromSession(c, u) ==
    SelectSeq(toClient[c], LAMBDA m : m.type = "gemini" /\ m.data[1] = u)

\* C21: the client is sent each upstream event of a session once, wrapped
\* as a gemini message with the event as its data, in the order of the
\* onmessage callbacks; none is missing while the client socket is open.
C21_ForwardedOnceInOrder ==
    \A c \in conns : \A u \in UpsOf(c) :
        LET f == FromSession(c, u)
        IN /\ Len(f) <= ups[u].got
           /\ wsState[c] = "open" => Len(f) = ups[u].got
           /\ \A k \in 1..Len(f) : f[k] = GeminiMsg(<<u, k>>)

\* C21 witness: two upstream events of one session reached the client after
\* the status-open message, first the first.
C21_Witness ==
    \E c \in conns :
        /\ wsState[c] = "open"
        /\ toClient[c] = <<StatusMsg("open"), GeminiMsg(<<1, 1>>),
                           GeminiMsg(<<1, 2>>)>>

\* The upstream sessions of c whose open succeeded.
Opened(c) == {u \in UpsOf(c) : ups[u].st \in {"open", "closed"}}

\* C22: the client is sent one status-open message for each session that
\* opened and none for a failed open, and no gemini message comes before the
\* first status-open message.
C22_OneStatusOpenFirst ==
    \A c \in conns :
        LET q == toClient[c]
        IN /\ Count(q, StatusMsg("open")) <= Cardinality(Opened(c))
           /\ wsState[c] = "open" =>
                 Count(q, StatusMsg("open")) = Cardinality(Opened(c))
           /\ \A i \in 1..Len(q) :
                 q[i].type = "gemini" =>
                    \E j \in 1..(i - 1) : q[j] = StatusMsg("open")

\* C22 witness: the first open failed, the second succeeded and delivered an
\* event; the client has the error, one status-open and then the event.
C22_Witness ==
    \E c \in conns :
        /\ wsState[c] = "open"
        /\ toClient[c] = <<ErrorMsg, StatusMsg("open"), GeminiMsg(<<2, 1>>)>>

\* C25: each input frame handled while the session of the connection is open
\* makes one sendRealtimeInput call with its payload, after the calls of the
\* frames that arrived before it.
C25_InputsForwardedInOrder ==
    [][\A c \in conns :
         (inputs'[c] # inputs[c] /\ session[c] # 0
            /\ ups[session[c]].st = "open") =>
            ups' = [ups EXCEPT ![session[c]].sent =
                                  Append(@, <<c, inputs'[c]>>)]]_vars

\* C25 witness: two input frames were passed to the open session, first the
\* first.
C25_Witness ==
    \E c \in conns :
        /\ session[c] # 0 /\ ups[session[c]].st = "open"
        /\ ups[session[c]].sent = <<<<c, 1>>, <<c, 2>>>>

\* What the relay holds for connection d is left as it was by a step.
Untouched(d) ==
    /\ session'[d] = session[d] /\ wsState'[d] = wsState[d]
    /\ toClient'[d] = toClient[d] /\ deadSend'[d] = deadSend[d]
    /\ starts'[d] = starts[d] /\ inputs'[d] = inputs[d] /\ junk'[d] = junk[d]
    /\ \A u \in UpsOf(d) : ups'[u] = ups[u]
    /\ \A u \in (1..Len(ups')) \ (1..Len(ups)) : ups'[u].conn # d

\* Inputs reach only the sessions of their own connection, and events only
\* the client of the connection that opened their session.
RoutedWithin ==
    /\ \A c \in conns : session[c] # 0 => ups[session[c]].conn = c
    /\ \A u \in 1..Len(ups) :
          \A i \in 1..Len(ups[u].sent) : ups[u].sent[i][1] = ups[u].conn
    /\ \A c \in conns : \A i \in 1..Len(toClient[c]) :
          toClient[c][i].type = "gemini" =>
             ups[toClient[c][i].data[1]].conn = c

\* C26: with two connections interleaved, every step of the relay changes
\* what it holds for one connection only and leaves the frames the other may
\* send as they were; inputs and events stay within their connection.
C26_ConnectionsIsolated ==
    [][/\ \E c \in conns : \A d \in conns \ {c} :
            /\ Untouched(d)
            /\ (ENABLED Input(d))' = ENABLED Input(d)
            /\ (ENABLED StartSession(d))' = ENABLED StartSession(d)
       /\ RoutedWithin']_vars

\* C26 witness: both connections have an open session, and each session was
\* sent the input of its own connection and delivered its event to its own
\* client.
C26_Witness ==
    /\ \A c \in conns :
          /\ session[c] # 0 /\ ups[session[c]].st = "open"
          /\ ups[session[c]].sent = <<<<c, 1>>>>
          /\ toClient[c] = <<StatusMsg("open"), GeminiMsg(<<session[c], 1>>)>>
    /\ Cardinality(conns) = 2

\* C23: the handling of an event whose signal is interruption alone takes
\* nothing from the trainee buffer and leaves every Utterance committed
\* before it, rendered or queued, as it was.
C23_InterruptionLeavesTrainee ==
    [][(done' # done /\ lastSig'.int /\ ~lastSig'.tc) =>
          /\ IsPrefix(inBuf, inBuf')
          /\ transcripts' = transcripts
          /\ IsPrefix(updQ, updQ')
          /\ IsPrefix(expected, expected')]_vars

\* C23 witness: an interruption committed the customer buffer while the
\* trainee buffer held text, and that text is still there.
C23_Witness ==
    /\ lastSig.int /\ ~lastSig.tc
    /\ inBuf = <<"a">> /\ outBuf = <<>>
    /\ Len(expected) = 1 /\ HasMarker(expected[1].text)

\* The calls in q that wait for their audio chunk to be decoded.
Waiting(q) == {i \in 1..Len(q) : q[i].pc = "decode"}

\* The Utterances the commits of a step recorded.
NewCommits == {expected'[i] : i \in (Len(expected) + 1)..Len(expected')}

\* The order of the sub-events as handleServerMessage has it: the audio chunk
\* first, then the deltas, then turn-complete, then interruption.
AudioDeltasSignals ==
    /\ Cardinality(Waiting(pending')) > Cardinality(Waiting(pending)) =>
          UNCHANGED <<inBuf, outBuf, updQ, expected>>
    /\ Cardinality(Waiting(pending')) < Cardinality(Waiting(pending)) =>
          LET e == pending[FirstAt("decode")].ev
          IN /\ (~e.tc /\ ~e.int) =>
                   /\ inBuf' = inBuf \o e.inT
                   /\ outBuf' = outBuf \o e.outT
             /\ (e.tc /\ Truthy(Trim(inBuf \o e.inT))) =>
                   /\ inBuf' = <<>>
                   /\ Utt("user", inBuf \o e.inT) \in NewCommits
             /\ (e.tc /\ Truthy(Trim(outBuf \o e.outT))) =>
                   /\ outBuf' = <<>>
                   /\ Utt("model", outBuf \o e.outT) \in NewCommits
    /\ (done' # done /\ lastSig'.tc /\ lastSig'.int) =>
          \A u \in NewCommits : ~HasMarker(u.text)

\* C24 as amended: within one event the audio chunk is handled first, then
\* the output delta, the input delta, turn-complete and interruption; a
\* delta that shares its event with a signal is in its buffer before the
\* flush.
C24_OrderAsCoded ==
    [][AudioDeltasSignals]_vars

\* C24 witness: an event with an audio chunk, a trainee delta and
\* turn-complete was handled after an earlier trainee delta; the chunk was
\* scheduled and the commit holds both deltas.
C24_Witness ==
    /\ lastSig.tc /\ pending = <<>>
    /\ sources # {}
    /\ expected = <<Utt("user", <<"a", "a">>)>>

\* C24 as claimed: the deltas of an event are handled before its audio
\* chunk, so no call waits for its chunk with a delta still to append, and
\* the rest of the order is as above.
C24_DeltasBeforeAudio ==
    [][/\ AudioDeltasSignals
       /\ \A i \in Waiting(pending') :
             pending'[i].ev.inT = <<>> /\ pending'[i].ev.outT = <<>>]_vars

\* The text of an Utterance without the interruption marker.
Unmarked(t) == IF HasMarker(t) THEN SubSeq(t, 1, Len(t) - Len(Marker)) ELSE t

\* C29: every Utterance of the displayed transcript and of the history handed
\* to onEndSession has a text that, the marker aside, is non-empty after
\* trimming.
C29_NoEmptyUtterance ==
    \A q \in {transcripts, handed} :
        \A i \in 1..Len(q) : Truthy(Trim(Unmarked(q[i].text)))

\* The fetch of the evaluation failed: no response, a status that is not OK,
\* or a body that is not JSON.
FetchFailed(res) == ~res.arrived \/ ~res.ok \/ res.body = "garbage"

\* C27: generateEvaluation never rejects, and on every failure of the call
\* (network error, status not OK, unparsable body) it resolves with a full
\* report of score 0 with no strengths and no weaknesses, which the report
\* view then holds.
C27_EvaluationDegrades ==
    /\ evalPhase # "rejected"
    /\ (evalPhase = "done" /\ FetchFailed(fetchRes)) =>
          /\ ~generating
          /\ Len(report) = 1
          /\ DOMAIN report[1] = DOMAIN ModelReport
          /\ report[1].score = 0
          /\ report[1].strengths = <<>>
          /\ report[1].weaknesses = <<>>

C27_Witness ==
    /\ appState = "REPORT" /\ evalPhase = "done" /\ ~generating
    /\ fetchRes = Response(TRUE, FALSE, "error")
    /\ report = <<Placeholder>>

\* C28: once the client has handled the status-closed message, the audio
\* capture and the video interval are stopped and no further input message
\* is sent.
C28_ClosedReleasesStreams ==
    [][closedSeen' => /\ ~mic' /\ ~cam'
                      /\ (closedSeen => sent' = sent)]_vars

\* The error toast and its reload button are shown.
RetryOffered == error # <<>>

\* C30: after the error of a missing credential the client offers no retry,
\* after a connect or stream error it offers one.
C30_FatalDistinguished ==
    /\ (error = ServerError("credential") => ~RetryOffered)
    /\ (error \in {ServerError("connect"), ServerError("stream")} => RetryOffered)

\* C31: the Utterance a turn-complete or an interruption commits has the role
\* and the text its buffer held when the event was handled, whenever the
\* queued update is applied, also when one event commits two Utterances.
C31_CommitKeepsBufferText ==
    /\ Len(transcripts) <= Len(expected)
    /\ \A i \in 1..Len(transcripts) :
          /\ transcripts[i].role = expected[i].role
          /\ transcripts[i].text = expected[i].text

\* C32: an input frame handled after the relay has sent status open on its
\* connection finds the session variable assigned to a session that did open,
\* and is passed to that session: the session-null check drops none.
C32_InputAfterOpenForwarded ==
    [][\A c \in conns :
         (inputs'[c] # inputs[c] /\ Count(toClient[c], StatusMsg("open")) > 0) =>
            /\ session[c] # 0
            /\ ups[session[c]].st \in {"open", "closed"}
            /\ ups'[session[c]].sent =
                  Append(ups[session[c]].sent, <<c, inputs'[c]>>)]_vars

\* C32 witness: the client has been sent status open and nothing else, and the
\* one input frame it sent after that is the one frame the session was passed.
C32_Witness ==
    \E c \in conns :
        /\ toClient[c] = <<StatusMsg("open")>>
        /\ inputs[c] = 1 /\ session[c] # 0
        /\ ups[session[c]].sent = <<<<c, 1>>>>

\* C33: on one socket the client sends start_session once, when the socket
\* opens and before anything else, and it sends an input message only after
\* its ws.onmessage has handled status open.
C33_OneStartInputsAfterOpen ==
    [][/\ startsSent' > startsSent =>
             /\ startsSent = 0 /\ sent = 0
             /\ sock = "connecting" /\ sock' = "open"
       /\ sock' = "open" => startsSent' = 1
       /\ sent' > sent => (openSeen /\ startsSent = 1)]_vars

\* C33 witness: one start_session, status open handled, and after it two
\* input messages on the open socket.
C33_Witness ==
    /\ sock = "open" /\ startsSent = 1 /\ openSeen /\ sent = 2

\* C34: once endSession has run and the component has unmounted, no
\* start_session and no input message is sent any more.
C34_NothingSentAfterEnd ==
    [][(endedRun /\ endedRun') =>
          /\ sent' = sent
          /\ startsSent' = startsSent]_vars

\* C35: while LiveSession is mounted, initializing does not stay true for
\* ever once startSession has set it.
C35_InitializingEnds ==
    (initializing /\ appState = "SESSION")
        ~> (~initializing \/ appState # "SESSION")

\* C36: a chunk is scheduled at max(nextStartTime, currentTime), which is no
\* earlier than the end of any chunk scheduled before it and not stopped, and
\* nextStartTime becomes the end of the new chunk; nextStartTime never goes
\* down except in the handling of an interruption, which sets it to the
\* current time.
C36_ChunksBackToBack ==
    [][IF done' # done /\ lastSig'.int
       THEN nextStart' = clock
       ELSE /\ nextStart' >= nextStart
            /\ nextStart' # nextStart =>
                  /\ nextStart' = Max(nextStart, clock) + ChunkDur
                  /\ sources' = sources \cup {nextStart'}
                  /\ \A t \in sources : t <= nextStart' - ChunkDur]_vars

\* C36 witness: two chunks are scheduled, the second one starting when the
\* first one ends, and nextStartTime is the end of the second.
C36_Witness ==
    \E a \in sources :
        /\ a + ChunkDur \in sources
        /\ nextStart = a + ChunkDur
        /\ clock < a

C38_UserBeforeModel ==
    [][LET n == Len(expected)
       IN /\ Len(expected') = n + 2 =>
                /\ expected'[n + 1].role = "user"
                /\ expected'[n + 2].role = "model"
          /\ Len(transcripts') <= Len(expected')
          /\ \A i \in 1..Len(transcripts') :
                transcripts'[i].role = expected'[i].role
          /\ (~ended /\ ended' /\ inBuf # <<>> /\ outBuf # <<>>) =>
                /\ Len(handed') >= 2
                /\ handed'[Len(handed') - 1] = Utt("user", inBuf)
                /\ handed'[Len(handed')] = Utt("model", outBuf)]_vars

\* C38 witness: the one event received carried both deltas and turn-complete,
\* and the transcript shows a user Utterance followed by a model Utterance.
C38_Witness ==
    /\ recvN = 1
    /\ expected = <<Utt("user", <<"a">>), Utt("model", <<"b">>)>>
    /\ Len(transcripts) = 2
    /\ transcripts[1].role = "user" /\ transcripts[2].role = "model"

\* C39: SESSION has a selected scenario; in REPORT the evaluation is either
\* under way with isGeneratingReport true, or done with isGeneratingReport
\* false and a report, so the view of a failed report (not generating, no
\* report) never shows; resetApp cannot run while isGeneratingReport is true.
C39_AppStateMachine ==
    /\ appState = "SESSION" => scenario # "none"
    /\ appState = "REPORT" =>
          /\ evalPhase \in {"fetching", "done"}
          /\ evalPhase = "fetching" => generating
          /\ evalPhase = "done" => (~generating /\ report # <<>>)
          /\ ~(~generating /\ report = <<>>)
    /\ generating => ~ENABLED resetApp

\* C39 witness: the report view shows the report the server returned.
C39_Witness ==
    /\ appState = "REPORT" /\ scenario = "s1"
    /\ evalPhase = "done" /\ ~generating
    /\ report = <<ModelReport>>

====
